---- MODULE Spec2Model ----
(***************************************************************************)
(* SmartFridge: the analytics event consumers (consumers/event_consumers), *)
(* the event bus they subscribe to, and the recipe search engine           *)
(* (recipe_search).                                                        *)
(***************************************************************************)
EXTENDS Integers, Sequences, FiniteSets, TLC

(***************************************************************************)
(* Bounds of the model and program constants.                              *)
(***************************************************************************)
\* Published events that change the analytics state, per behaviour of Spec.
MaxPublishes == 12

\* Subscriptions made after setup_event_consumers, and publishes, per behaviour of
\* SpecBus.
MaxExtraSubs == 1
MaxBusPublishes == 1

\* Calls of on_recipe_search_performed per behaviour of SpecHandler.
MaxHandled == 3

\* Ingredients of a recipe calculate_match is called with; recipes of a catalog
\* search_recipes is called with.
MaxIngredients == 3
MaxCatalog == 3

\* Request threads of the service, and requests they begin per behaviour.
NumThreads == 2
MaxRequests == 2

\* "Keep only last 10 searches" (the length test of on_recipe_search_performed).
MAX_RECENT == 10

Users == {"u1", "u2"}

\* Readings of the clock that stamps events; the clock never runs backwards.
Timestamps == {1, 2}

EventTypes ==
    {"USER_CREATED", "USER_PROFILE_UPDATED", "INGREDIENT_ADDED", "INGREDIENT_REMOVED",
     "RECIPE_FAVORITED", "RECIPE_UNFAVORITED", "RECIPE_SEARCH_PERFORMED",
     "USER_APPLIANCES_UPDATED"}

Handlers ==
    {"on_user_created", "on_user_profile_updated", "on_ingredient_added",
     "on_ingredient_removed", "on_recipe_favorited", "on_recipe_unfavorited",
     "on_recipe_search_performed", "on_appliances_updated"}

VARIABLES
    analytics_db,   \* _analytics_db: user_analytics and system_stats
    subscribers,    \* the event bus registry: event type -> handlers, in order
    now,            \* the clock read by publish
    delivered,      \* the most recent publish: its type, the handler calls, its outcome
    history,        \* what has been published so far (observation only)
    th,             \* the request threads: where each is in its handler, its locals
    obj,            \* identity of the record object user_analytics holds per user
    requests,       \* requests begun by the threads
    input,          \* recipe search: the arguments of the call
    output          \* recipe search: the function called and what it returned

vars ==
    <<analytics_db, subscribers, now, delivered, history, th, obj, requests, input, output>>

threadVars == <<th, obj, requests>>
searchVars == <<input, output>>

(***************************************************************************)
(* _analytics_db and its readers.                                          *)
(***************************************************************************)
EmptyAnalytics ==
    [user_analytics |-> <<>>,
     system_stats |-> [total_searches |-> 0, total_users_created |-> 0,
                       total_favorites |-> 0]]

NewUserRecord == [search_count |-> 0, recent_searches |-> <<>>]

get_system_analytics(db) == db.system_stats

get_user_analytics(db, user_id) ==
    IF user_id \in DOMAIN db.user_analytics
    THEN db.user_analytics[user_id]
    ELSE [search_count |-> 0, recent_searches |-> <<>>]

(***************************************************************************)
(* Events.  An event is a record with type, data and (from the bus) a      *)
(* timestamp; data is a record whose keys depend on the publisher.         *)
(***************************************************************************)
Has(d, k) == k \in DOMAIN d

\* The query a user sends with a search request.
QueryOf(u) ==
    IF u = "u1" THEN [ingredients |-> <<"egg">>, result_count |-> 1]
    ELSE [ingredients |-> <<"egg", "bread">>, result_count |-> 0]

SearchPayload(u) ==
    [user_id |-> u, ingredients |-> QueryOf(u).ingredients,
     result_count |-> QueryOf(u).result_count]

PayloadOf(type, u) ==
    CASE type = "USER_CREATED" -> [user_id |-> u, username |-> "name"]
      [] type = "USER_PROFILE_UPDATED" -> [user_id |-> u, updated_fields |-> "fields"]
      [] type = "INGREDIENT_ADDED" -> [user_id |-> u, ingredient_name |-> "egg"]
      [] type = "INGREDIENT_REMOVED" -> [user_id |-> u, ingredient_id |-> "i1"]
      [] type = "RECIPE_FAVORITED" -> [user_id |-> u, recipe_name |-> "toast"]
      [] type = "RECIPE_UNFAVORITED" -> [user_id |-> u, recipe_id |-> "r1"]
      [] type = "RECIPE_SEARCH_PERFORMED" -> SearchPayload(u)
      [] type = "USER_APPLIANCES_UPDATED" -> [user_id |-> u, appliances |-> <<"oven">>]

Summary(ev) ==
    [timestamp |-> ev.timestamp, ingredients |-> ev.data.ingredients,
     result_count |-> ev.data.result_count]

(***************************************************************************)
(* The statements of on_recipe_search_performed on the analytics state.    *)
(***************************************************************************)
CreateRecord(db, u) ==
    [db EXCEPT !.user_analytics = (u :> NewUserRecord) @@ @]

\* A slip in the per-user count: every search is counted twice.
SetSearchCountTwice(db, u, n) ==
    [db EXCEPT !.user_analytics[u].search_count = n + 1]

SetSearchCount(db, u, n) ==
    [db EXCEPT !.user_analytics[u].search_count = n]

AppendSearch(db, u, s) ==
    [db EXCEPT !.user_analytics[u].recent_searches = Append(@, s)]

\* A slip in the length test: one entry too many is let through.
TooManyLate(db, u) == Len(db.user_analytics[u].recent_searches) > MAX_RECENT + 1

TooMany(db, u) == Len(db.user_analytics[u].recent_searches) > MAX_RECENT

\* A slip in the eviction: the newest entry goes instead of the oldest.
PopNewest(db, u) ==
    [db EXCEPT !.user_analytics[u].recent_searches = SubSeq(@, 1, Len(@) - 1)]

PopOldest(db, u) ==
    [db EXCEPT !.user_analytics[u].recent_searches = Tail(@)]

SetStat(db, k, n) == [db EXCEPT !.system_stats[k] = n]

(***************************************************************************)
(* The handlers.  Each returns the analytics state it leaves and whether   *)
(* it raised (a KeyError on a key the event does not carry).               *)
(***************************************************************************)
Returned(db) == [db |-> db, raised |-> FALSE]
Raised(db) == [db |-> db, raised |-> TRUE]

on_user_created(db, ev) ==
    IF ~Has(ev.data, "user_id") \/ ~Has(ev.data, "username") THEN Raised(db)
    ELSE Returned(SetStat(db, "total_users_created",
                          db.system_stats.total_users_created + 1))

on_user_profile_updated(db, ev) ==
    IF ~Has(ev.data, "user_id") \/ ~Has(ev.data, "updated_fields") THEN Raised(db)
    ELSE Returned(db)

on_ingredient_added(db, ev) ==
    IF ~Has(ev.data, "user_id") \/ ~Has(ev.data, "ingredient_name") THEN Raised(db)
    ELSE Returned(db)

on_ingredient_removed(db, ev) ==
    IF ~Has(ev.data, "user_id") \/ ~Has(ev.data, "ingredient_id") THEN Raised(db)
    ELSE Returned(db)

\* A slip in on_recipe_favorited: the event is logged but not counted.
on_recipe_favorited_uncounted(db, ev) ==
    IF ~Has(ev.data, "user_id") \/ ~Has(ev.data, "recipe_name") THEN Raised(db)
    ELSE Returned(db)

on_recipe_favorited(db, ev) ==
    IF ~Has(ev.data, "user_id") \/ ~Has(ev.data, "recipe_name") THEN Raised(db)
    ELSE Returned(SetStat(db, "total_favorites", db.system_stats.total_favorites + 1))

\* A slip in on_recipe_unfavorited: it takes the favorite back out of the count.
on_recipe_unfavorited_decrements(db, ev) ==
    IF ~Has(ev.data, "user_id") \/ ~Has(ev.data, "recipe_id") THEN Raised(db)
    ELSE Returned(SetStat(db, "total_favorites", db.system_stats.total_favorites - 1))

on_recipe_unfavorited(db, ev) ==
    IF ~Has(ev.data, "user_id") \/ ~Has(ev.data, "recipe_id") THEN Raised(db)
    ELSE Returned(db)

on_recipe_search_performed(db, ev) ==
    IF \/ ~Has(ev.data, "user_id")
       \/ ~Has(ev.data, "ingredients")
       \/ ~Has(ev.data, "result_count")
    THEN Raised(db)
    ELSE
      LET u == ev.data.user_id
          db1 == IF u \notin DOMAIN db.user_analytics THEN CreateRecord(db, u) ELSE db
          db2 == SetSearchCount(db1, u, db1.user_analytics[u].search_count + 1)
      IN  IF ~Has(ev, "timestamp") THEN Raised(db2)
          ELSE
            LET db3 == AppendSearch(db2, u, Summary(ev))
                db4 == IF TooMany(db3, u) THEN PopOldest(db3, u) ELSE db3
            IN  Returned(SetStat(db4, "total_searches",
                                 db4.system_stats.total_searches + 1))

on_appliances_updated(db, ev) ==
    IF ~Has(ev.data, "user_id") \/ ~Has(ev.data, "appliances") THEN Raised(db)
    ELSE Returned(db)

Invoke(h, db, ev) ==
    CASE h = "on_user_created" -> on_user_created(db, ev)
      [] h = "on_user_profile_updated" -> on_user_profile_updated(db, ev)
      [] h = "on_ingredient_added" -> on_ingredient_added(db, ev)
      [] h = "on_ingredient_removed" -> on_ingredient_removed(db, ev)
      [] h = "on_recipe_favorited" -> on_recipe_favorited(db, ev)
      [] h = "on_recipe_unfavorited" -> on_recipe_unfavorited(db, ev)
      [] h = "on_recipe_search_performed" -> on_recipe_search_performed(db, ev)
      [] h = "on_appliances_updated" -> on_appliances_updated(db, ev)

(***************************************************************************)
(* setup_event_consumers: one subscription per event type.                 *)
(***************************************************************************)
setup_event_consumers ==
    [t \in EventTypes |->
        CASE t = "USER_CREATED" -> <<"on_user_created">>
          [] t = "USER_PROFILE_UPDATED" -> <<"on_user_profile_updated">>
          [] t = "INGREDIENT_ADDED" -> <<"on_ingredient_added">>
          [] t = "INGREDIENT_REMOVED" -> <<"on_ingredient_removed">>
          [] t = "RECIPE_FAVORITED" -> <<"on_recipe_favorited">>
          [] t = "RECIPE_UNFAVORITED" -> <<"on_recipe_unfavorited">>
          [] t = "RECIPE_SEARCH_PERFORMED" -> <<"on_recipe_search_performed">>
          [] t = "USER_APPLIANCES_UPDATED" -> <<"on_appliances_updated">>]

(***************************************************************************)
(* The event bus: publish calls every subscriber of the type in order; a   *)
(* handler that raises is caught and logged, and delivery goes on.         *)
(***************************************************************************)
\* A bus that does not catch: the first handler that raises ends the delivery and
\* the error reaches the publisher.
RECURSIVE dispatch_uncaught(_, _, _, _)
dispatch_uncaught(subs, db, ev, calls) ==
    IF subs = <<>> THEN [db |-> db, calls |-> calls, completed |-> TRUE]
    ELSE LET r == Invoke(Head(subs), db, ev)
             called == Append(calls, [handler |-> Head(subs), raised |-> r.raised])
         IN  IF r.raised THEN [db |-> r.db, calls |-> called, completed |-> FALSE]
             ELSE dispatch_uncaught(Tail(subs), r.db, ev, called)

RECURSIVE dispatch(_, _, _, _)
dispatch(subs, db, ev, calls) ==
    IF subs = <<>> THEN [db |-> db, calls |-> calls, completed |-> TRUE]
    ELSE LET r == Invoke(Head(subs), db, ev)
         IN  dispatch(Tail(subs), r.db, ev,
                      Append(calls, [handler |-> Head(subs), raised |-> r.raised]))

publish(registry, db, ev) == dispatch(registry[ev.type], db, ev, <<>>)

(***************************************************************************)
(* What has been published: the observation the analytics are compared to. *)
(***************************************************************************)
NoHistory ==
    [created |-> 0, favorited |-> 0, searches |-> [u \in Users |-> <<>>], rejected |-> 0]

Published(h) ==
    h.created + h.favorited + h.rejected
      + Len(h.searches["u1"]) + Len(h.searches["u2"])

WellFormedSearch(ev) ==
    /\ ev.type = "RECIPE_SEARCH_PERFORMED"
    /\ Has(ev, "timestamp")
    /\ Has(ev.data, "user_id") /\ Has(ev.data, "ingredients") /\ Has(ev.data, "result_count")

Record(h, ev, calls) ==
    IF \E i \in 1..Len(calls) : calls[i].raised THEN [h EXCEPT !.rejected = @ + 1]
    ELSE IF ev.type = "USER_CREATED" THEN [h EXCEPT !.created = @ + 1]
    ELSE IF ev.type = "RECIPE_FAVORITED" THEN [h EXCEPT !.favorited = @ + 1]
    ELSE IF WellFormedSearch(ev)
         THEN [h EXCEPT !.searches[ev.data.user_id] = Append(@, Summary(ev))]
    ELSE h

(***************************************************************************)
(* Request threads.  A thread that is not idle is inside the handler of    *)
(* the event its request published.                                        *)
(***************************************************************************)
Threads == 1..NumThreads

Idle == [pc |-> "idle", ev |-> <<>>, tmp |-> 0, ref |-> 0]

(***************************************************************************)
(* Spec: the service as api.py builds it (setup_event_consumers called     *)
(* once), handling one request at a time; each publish runs to completion. *)
(***************************************************************************)
Init ==
    /\ analytics_db = EmptyAnalytics
    /\ subscribers = setup_event_consumers
    /\ now = 1
    /\ delivered = [type |-> "none", calls |-> <<>>, completed |-> TRUE]
    /\ history = NoHistory
    /\ th = [t \in Threads |-> Idle]
    /\ obj = [u \in Users |-> 0]
    /\ requests = 0
    /\ input = <<>>
    /\ output = <<>>

Tick ==
    /\ \E t \in Timestamps : t > now /\ now' = t
    /\ UNCHANGED <<analytics_db, subscribers, delivered, history, threadVars, searchVars>>

Event(type, u) == [type |-> type, data |-> PayloadOf(type, u), timestamp |-> now]

Deliver(ev) ==
    LET r == publish(subscribers, analytics_db, ev)
    IN  /\ analytics_db' = r.db
        /\ delivered' = [type |-> ev.type, calls |-> r.calls, completed |-> r.completed]
        /\ history' = Record(history, ev, r.calls)
        /\ UNCHANGED <<subscribers, now, threadVars, searchVars>>

\* Who publishes: the analytics keep per-user state for searches only.
Publishers(type) == IF type = "RECIPE_SEARCH_PERFORMED" THEN Users ELSE {"u1"}

Publish ==
    /\ Published(history) < MaxPublishes
    /\ \E type \in EventTypes : \E u \in Publishers(type) : Deliver(Event(type, u))

Next == Tick \/ Publish

Spec == Init /\ [][Next]_vars

(***************************************************************************)
(* The handlers statement by statement, as a request thread runs them.     *)
(* Another thread may run between any two steps.  A statement that updates *)
(* a user's record first fetches the record object from user_analytics and *)
(* then stores into that object: when another thread has replaced the      *)
(* record in between (CreateRecord), the store goes to the replaced object *)
(* and is not seen again.                                                  *)
(***************************************************************************)
UserOf(t) == th[t].ev.data.user_id

StatOf(type) ==
    CASE type = "USER_CREATED" -> "total_users_created"
      [] type = "RECIPE_FAVORITED" -> "total_favorites"
      [] type = "RECIPE_SEARCH_PERFORMED" -> "total_searches"

HandlerOf(type) == Head(setup_event_consumers[type])

EntryOf(type) ==
    CASE type = "RECIPE_SEARCH_PERFORMED" -> "check"
      [] type \in {"USER_CREATED", "RECIPE_FAVORITED"} -> "stat_load"
      [] OTHER -> "idle"

Goto(t, pc) == th' = [th EXCEPT ![t].pc = pc]

Outcome(type, raised) ==
    [type |-> type, calls |-> <<[handler |-> HandlerOf(type), raised |-> raised]>>,
     completed |-> TRUE]

\* A request publishes its event; a handler that only logs is done at once.
Begin(t) ==
    /\ th[t].pc = "idle"
    /\ requests < MaxRequests
    /\ requests' = requests + 1
    /\ \E type \in EventTypes : \E u \in Publishers(type) :
         LET ev == Event(type, u)
         IN  /\ history' = Record(history, ev, <<>>)
             /\ IF EntryOf(type) = "idle"
                THEN /\ th' = th
                     /\ delivered' = Outcome(type, FALSE)
                ELSE /\ th' = [th EXCEPT ![t] = [Idle EXCEPT !.pc = EntryOf(type), !.ev = ev]]
                     /\ delivered' = delivered
    /\ UNCHANGED <<analytics_db, subscribers, now, obj, searchVars>>

\* if user_id not in analytics_db['user_analytics']:
Check(t) ==
    /\ th[t].pc = "check"
    /\ Goto(t, IF UserOf(t) \notin DOMAIN analytics_db.user_analytics
               THEN "create" ELSE "count_load")
    /\ UNCHANGED <<analytics_db, subscribers, now, delivered, history, obj, requests,
                   searchVars>>

\* analytics_db['user_analytics'][user_id] = {'search_count': 0, 'recent_searches': []}
Create(t) ==
    /\ th[t].pc = "create"
    /\ analytics_db' = CreateRecord(analytics_db, UserOf(t))
    /\ obj' = [obj EXCEPT ![UserOf(t)] = @ + 1]
    /\ Goto(t, "count_load")
    /\ UNCHANGED <<subscribers, now, delivered, history, requests, searchVars>>

\* ...['search_count'] += 1: the read
CountLoad(t) ==
    /\ th[t].pc = "count_load"
    /\ th' = [th EXCEPT ![t].pc = "count_store", ![t].ref = obj[UserOf(t)],
                        ![t].tmp = analytics_db.user_analytics[UserOf(t)].search_count]
    /\ UNCHANGED <<analytics_db, subscribers, now, delivered, history, obj, requests,
                   searchVars>>

\* ...['search_count'] += 1: the write
CountStore(t) ==
    /\ th[t].pc = "count_store"
    /\ analytics_db' = IF th[t].ref = obj[UserOf(t)]
                       THEN SetSearchCount(analytics_db, UserOf(t), th[t].tmp + 1)
                       ELSE analytics_db
    /\ th' = [th EXCEPT ![t].pc = "append_fetch", ![t].tmp = 0, ![t].ref = 0]
    /\ UNCHANGED <<subscribers, now, delivered, history, obj, requests, searchVars>>

\* ...['recent_searches'].append({...}): the list is fetched, the summary built
AppendFetch(t) ==
    /\ th[t].pc = "append_fetch"
    /\ th' = [th EXCEPT ![t].pc = "append_call", ![t].ref = obj[UserOf(t)]]
    /\ UNCHANGED <<analytics_db, subscribers, now, delivered, history, obj, requests,
                   searchVars>>

\* ...['recent_searches'].append({...}): the call
AppendCall(t) ==
    /\ th[t].pc = "append_call"
    /\ analytics_db' = IF th[t].ref = obj[UserOf(t)]
                       THEN AppendSearch(analytics_db, UserOf(t), Summary(th[t].ev))
                       ELSE analytics_db
    /\ th' = [th EXCEPT ![t].pc = "len_check", ![t].ref = 0]
    /\ UNCHANGED <<subscribers, now, delivered, history, obj, requests, searchVars>>

\* if len(...['recent_searches']) > 10:
LenCheck(t) ==
    /\ th[t].pc = "len_check"
    /\ Goto(t, IF TooMany(analytics_db, UserOf(t)) THEN "pop_fetch" ELSE "stat_load")
    /\ UNCHANGED <<analytics_db, subscribers, now, delivered, history, obj, requests,
                   searchVars>>

\* ...['recent_searches'].pop(0): the list is fetched
PopFetch(t) ==
    /\ th[t].pc = "pop_fetch"
    /\ th' = [th EXCEPT ![t].pc = "pop_call", ![t].ref = obj[UserOf(t)]]
    /\ UNCHANGED <<analytics_db, subscribers, now, delivered, history, obj, requests,
                   searchVars>>

\* ...['recent_searches'].pop(0): the call; IndexError on an empty list ends the handler
PopCall(t) ==
    /\ th[t].pc = "pop_call"
    /\ LET u == UserOf(t)
           current == th[t].ref = obj[u]
           empty == analytics_db.user_analytics[u].recent_searches = <<>>
       IN  IF current /\ empty
           THEN /\ th' = [th EXCEPT ![t] = Idle]
                /\ delivered' = Outcome(th[t].ev.type, TRUE)
                /\ analytics_db' = analytics_db
           ELSE /\ th' = [th EXCEPT ![t].pc = "stat_load", ![t].ref = 0]
                /\ delivered' = delivered
                /\ analytics_db' = IF current THEN PopOldest(analytics_db, u)
                                   ELSE analytics_db
    /\ UNCHANGED <<subscribers, now, history, obj, requests, searchVars>>

\* analytics_db['system_stats'][...] += 1: the read
StatLoad(t) ==
    /\ th[t].pc = "stat_load"
    /\ th' = [th EXCEPT ![t].pc = "stat_store",
                        ![t].tmp = analytics_db.system_stats[StatOf(th[t].ev.type)]]
    /\ UNCHANGED <<analytics_db, subscribers, now, delivered, history, obj, requests,
                   searchVars>>

\* analytics_db['system_stats'][...] += 1: the write; the handler then logs and returns
StatStore(t) ==
    /\ th[t].pc = "stat_store"
    /\ analytics_db' = SetStat(analytics_db, StatOf(th[t].ev.type), th[t].tmp + 1)
    /\ th' = [th EXCEPT ![t] = Idle]
    /\ delivered' = Outcome(th[t].ev.type, FALSE)
    /\ UNCHANGED <<subscribers, now, history, obj, requests, searchVars>>

(***************************************************************************)
(* States the service is in after some users have searched, one request    *)
(* at a time: the starting points of the thread-level specifications.      *)
(***************************************************************************)
PriorSearches == {0, 9, 10}

PriorEvent(u) ==
    [type |-> "RECIPE_SEARCH_PERFORMED", data |-> SearchPayload(u), timestamp |-> 1]

\* The analytics after n(u) searches of each user u, none of them concurrent.
PriorAnalytics(n) ==
    [user_analytics |->
        [u \in {v \in Users : n[v] > 0} |->
            [search_count |-> n[u],
             recent_searches |-> [i \in 1..n[u] |-> Summary(PriorEvent(u))]]],
     system_stats |-> [total_searches |-> n["u1"] + n["u2"], total_users_created |-> 0,
                       total_favorites |-> 0]]

PriorInit ==
    /\ \E n \in [Users -> PriorSearches] :
         /\ analytics_db = PriorAnalytics(n)
         /\ history = [NoHistory EXCEPT
                         !.searches = [u \in Users |->
                                         [i \in 1..n[u] |-> Summary(PriorEvent(u))]]]
         /\ obj = [u \in Users |-> IF n[u] > 0 THEN 1 ELSE 0]
    /\ subscribers = setup_event_consumers
    /\ now = 1
    /\ delivered = [type |-> "none", calls |-> <<>>, completed |-> TRUE]
    /\ th = [t \in Threads |-> Idle]
    /\ requests = 0
    /\ input = <<>>
    /\ output = <<>>

(***************************************************************************)
(* SpecStep: one request thread, its handler run statement by statement.   *)
(***************************************************************************)
StepNext ==
    \/ Tick
    \/ Begin(1) \/ Check(1) \/ Create(1) \/ CountLoad(1) \/ CountStore(1)
    \/ AppendFetch(1) \/ AppendCall(1) \/ LenCheck(1) \/ PopFetch(1) \/ PopCall(1)
    \/ StatLoad(1) \/ StatStore(1)

SpecStep == PriorInit /\ [][StepNext]_vars

(***************************************************************************)
(* SpecConc: the request threads of a multi-threaded server, interleaved   *)
(* between statements.  The handlers take no lock.                         *)
(***************************************************************************)
ConcNext ==
    \/ Tick
    \/ \E t \in Threads :
         \/ Begin(t) \/ Check(t) \/ Create(t) \/ CountLoad(t) \/ CountStore(t)
         \/ AppendFetch(t) \/ AppendCall(t) \/ LenCheck(t) \/ PopFetch(t) \/ PopCall(t)
         \/ StatLoad(t) \/ StatStore(t)

SpecConc == PriorInit /\ [][ConcNext]_vars

(***************************************************************************)
(* SpecBus: the event bus with further subscriptions and with events whose *)
(* payload is not the one the subscribed handler reads, so that handlers   *)
(* raise.                                                                  *)
(***************************************************************************)
subscribe(registry, type, h) == [registry EXCEPT ![type] = Append(@, h)]

ExtraSubscriptions ==
    Len(subscribers["USER_CREATED"]) + Len(subscribers["USER_PROFILE_UPDATED"])
      + Len(subscribers["INGREDIENT_ADDED"]) + Len(subscribers["INGREDIENT_REMOVED"])
      + Len(subscribers["RECIPE_FAVORITED"]) + Len(subscribers["RECIPE_UNFAVORITED"])
      + Len(subscribers["RECIPE_SEARCH_PERFORMED"])
      + Len(subscribers["USER_APPLIANCES_UPDATED"]) - Cardinality(EventTypes)

\* The handlers subscribed a further time: one that counts, one that keeps the
\* per-user history, one that only logs.
ExtraHandlers == {"on_user_created", "on_recipe_search_performed", "on_ingredient_added"}

Subscribe ==
    /\ ExtraSubscriptions < MaxExtraSubs
    /\ \E type \in EventTypes, h \in ExtraHandlers :
         subscribers' = subscribe(subscribers, type, h)
    /\ UNCHANGED <<analytics_db, now, delivered, history, threadVars, searchVars>>

\* An event of one type with the payload of any type.
PublishAny ==
    /\ requests < MaxBusPublishes
    /\ requests' = requests + 1
    /\ \E type \in EventTypes, shape \in EventTypes : \E u \in Publishers(shape) :
         LET ev == [type |-> type, data |-> PayloadOf(shape, u), timestamp |-> now]
             r == publish(subscribers, analytics_db, ev)
         IN  /\ analytics_db' = r.db
             /\ delivered' = [type |-> ev.type, calls |-> r.calls,
                              completed |-> r.completed]
             /\ history' = Record(history, ev, r.calls)
    /\ UNCHANGED <<subscribers, now, th, obj, searchVars>>

BusNext == Tick \/ Subscribe \/ PublishAny

SpecBus == Init /\ [][BusNext]_vars

(***************************************************************************)
(* SpecHandler: on_recipe_search_performed called with search events that  *)
(* may lack keys the handler reads: a payload key (read on entry) or the   *)
(* event's timestamp (read when the summary is built).                     *)
(***************************************************************************)
SearchKeys == {"user_id", "ingredients", "result_count", "timestamp"}

Without(rec, keys) == [k \in DOMAIN rec \ keys |-> rec[k]]

SearchEvent(u, lacking) ==
    Without([type |-> "RECIPE_SEARCH_PERFORMED",
             data |-> Without(SearchPayload(u), lacking),
             timestamp |-> now], lacking)

HandleSearch ==
    /\ requests < MaxHandled
    /\ requests' = requests + 1
    /\ \E u \in Users, lacking \in SUBSET SearchKeys :
         LET ev == SearchEvent(u, lacking)
             r == on_recipe_search_performed(analytics_db, ev)
             calls == <<[handler |-> "on_recipe_search_performed", raised |-> r.raised]>>
         IN  /\ analytics_db' = r.db
             /\ delivered' = [type |-> ev.type, calls |-> calls, completed |-> ~r.raised]
             /\ history' = Record(history, ev, calls)
    /\ UNCHANGED <<subscribers, now, th, obj, searchVars>>

HandlerNext == Tick \/ HandleSearch

SpecHandler == Init /\ [][HandlerNext]_vars

(***************************************************************************)
(* Properties of the analytics under Spec.                                 *)
(***************************************************************************)
LastN(s, n) == IF Len(s) <= n THEN s ELSE SubSeq(s, Len(s) - n + 1, Len(s))

NoOpTypes ==
    {"USER_PROFILE_UPDATED", "INGREDIENT_ADDED", "INGREDIENT_REMOVED",
     "RECIPE_UNFAVORITED", "USER_APPLIANCES_UPDATED"}

\* C2: for every user u, after n published searches of u (interleaved with other
\* users' searches and other events) userAnalytics(u).search_count = n and
\* recent_searches is exactly the summaries of u's last min(n, 10) searches, in
\* publish order.
C2_SearchHistory ==
    \A u \in Users :
        /\ get_user_analytics(analytics_db, u).search_count = Len(history.searches[u])
        /\ get_user_analytics(analytics_db, u).recent_searches
               = LastN(history.searches[u], MAX_RECENT)

\* The 11th search of u1 has been handled, with searches of u2 interleaved, and the
\* evicted first search differs from the newest one.
C2_Witness ==
    /\ Len(history.searches["u1"]) = MAX_RECENT + 1
    /\ Len(history.searches["u2"]) > 0
    /\ history.searches["u1"][1].timestamp = 1
    /\ history.searches["u1"][MAX_RECENT + 1].timestamp = 2
    /\ delivered.type = "RECIPE_SEARCH_PERFORMED"

\* C3: systemAnalytics() counts every published USER_CREATED, RECIPE_FAVORITED and
\* RECIPE_SEARCH_PERFORMED event exactly once.
C3_SystemCounters ==
    get_system_analytics(analytics_db)
        = [total_users_created |-> history.created,
           total_favorites |-> history.favorited,
           total_searches |-> Len(history.searches["u1"]) + Len(history.searches["u2"])]

\* Scenario D: 3 USER_CREATED and 2 RECIPE_FAVORITED publishes, no search.
C3_Witness ==
    /\ history.created = 3 /\ history.favorited = 2
    /\ history.searches = [u \in Users |-> <<>>]
    /\ get_system_analytics(analytics_db)
           = [total_users_created |-> 3, total_favorites |-> 2, total_searches |-> 0]

\* C10: a publish of USER_PROFILE_UPDATED, INGREDIENT_ADDED, INGREDIENT_REMOVED,
\* RECIPE_UNFAVORITED or USER_APPLIANCES_UPDATED leaves the analytics state as it
\* was; USER_CREATED and RECIPE_FAVORITED change their own counter only; a search
\* of user u changes no other user's record and neither of the other two counters.
C10_FrameStep ==
    /\ delivered'.type \in NoOpTypes => analytics_db' = analytics_db
    /\ history'.created # history.created =>
          analytics_db' = [analytics_db EXCEPT !.system_stats.total_users_created = @ + 1]
    /\ history'.favorited # history.favorited =>
          analytics_db' = [analytics_db EXCEPT !.system_stats.total_favorites = @ + 1]
    /\ \A u \in Users :
          history'.searches[u] # history.searches[u] =>
            /\ \A v \in Users \ {u} :
                  /\ (v \in DOMAIN analytics_db'.user_analytics)
                        = (v \in DOMAIN analytics_db.user_analytics)
                  /\ get_user_analytics(analytics_db', v)
                        = get_user_analytics(analytics_db, v)
            /\ analytics_db'.system_stats.total_users_created
                  = analytics_db.system_stats.total_users_created
            /\ analytics_db'.system_stats.total_favorites
                  = analytics_db.system_stats.total_favorites

C10_Frame == [][C10_FrameStep]_vars

\* An event of a type the analytics only log was just handled, in a state where
\* every counter is positive and both users have a record.
C10_Witness ==
    /\ delivered.type \in NoOpTypes
    /\ delivered.calls # <<>>
    /\ analytics_db.system_stats.total_users_created > 0
    /\ analytics_db.system_stats.total_favorites > 0
    /\ DOMAIN analytics_db.user_analytics = Users

\* The total the in-memory branch of the system analytics endpoint computes: the
\* sum of search_count over the user records.
RECURSIVE SumOver(_, _)
SumOver(records, users) ==
    IF users = {} THEN 0
    ELSE LET u == CHOOSE v \in users : TRUE
         IN  records[u].search_count + SumOver(records, users \ {u})

SumOfSearchCounts(db) == SumOver(db.user_analytics, DOMAIN db.user_analytics)

\* C11: after any sequence of completed event deliveries, system-wide
\* total_searches equals the sum of search_count over all user records.
C11_TotalIsSumOfCounts ==
    get_system_analytics(analytics_db).total_searches = SumOfSearchCounts(analytics_db)

\* Both users have searched, u1 ten times and u2 once, with counted events of other
\* types in between; the total is the sum of the two counts.
C11_Witness ==
    /\ DOMAIN analytics_db.user_analytics = Users
    /\ analytics_db.user_analytics["u1"].search_count = MAX_RECENT
    /\ analytics_db.user_analytics["u2"].search_count = 1
    /\ get_system_analytics(analytics_db).total_searches = MAX_RECENT + 1
    /\ history.created + history.favorited > 0

(***************************************************************************)
(* Properties of the handlers run statement by statement.                  *)
(***************************************************************************)
Recent(db, u) == get_user_analytics(db, u).recent_searches

AllIdle == \A t \in Threads : th[t].pc = "idle"

\* C1 as stated: recent_searches holds at most 10 entries in every state, also while
\* a search event is being handled.
C1_AtMostTenAlways == \A u \in Users : Len(Recent(analytics_db, u)) <= MAX_RECENT

C1_Bound ==
    \A u \in Users :
        /\ Len(Recent(analytics_db, u)) <= MAX_RECENT + 1
        /\ AllIdle => Len(Recent(analytics_db, u)) <= MAX_RECENT

C1_EvictsOldest ==
    \A u \in Users :
        Len(Recent(analytics_db', u)) < Len(Recent(analytics_db, u)) =>
            Recent(analytics_db', u) = Tail(Recent(analytics_db, u))

\* C1, amended: between events recent_searches holds at most 10 entries; while a
\* search is handled it holds at most 11 (after the append, before the eviction);
\* an entry that leaves the list is the oldest one (index 0).
C1_AtMostTenBetweenEvents == [](C1_Bound) /\ [][C1_EvictsOldest]_vars

\* The 11th search of u1 is being handled: the oldest entry has just been evicted.
C1_Witness ==
    /\ th[1].pc = "stat_load"
    /\ th[1].ev.type = "RECIPE_SEARCH_PERFORMED"
    /\ UserOf(1) = "u1"
    /\ Len(history.searches["u1"]) = MAX_RECENT + 1
    /\ Len(Recent(analytics_db, "u1")) = MAX_RECENT
    /\ Recent(analytics_db, "u1")[MAX_RECENT].timestamp = 2

\* C8: the handlers' updates are serialized: whenever no handler is running, every
\* user's search_count and the three system counters equal the number of events
\* handled (no update lost, no record overwritten) and recent_searches holds at
\* most 10 entries.
C8_NoLostUpdate ==
    AllIdle =>
        /\ \A u \in Users :
              /\ get_user_analytics(analytics_db, u).search_count
                    = Len(history.searches[u])
              /\ Len(Recent(analytics_db, u)) <= MAX_RECENT
        /\ get_system_analytics(analytics_db)
              = [total_users_created |-> history.created,
                 total_favorites |-> history.favorited,
                 total_searches |-> Len(history.searches["u1"])
                                      + Len(history.searches["u2"])]

(***************************************************************************)
(* Properties of on_recipe_search_performed under SpecHandler.             *)
(***************************************************************************)
\* C12: handling a search event is all-or-nothing: when the handler fails, the
\* analytics state is exactly as before the event (no record created, search_count,
\* recent_searches and total_searches unchanged); when it returns, the user's
\* search_count and total_searches each went up by one and the summary of the event
\* is the newest entry of recent_searches.
C12_Step ==
    requests' # requests =>
        IF delivered'.calls[1].raised
        THEN analytics_db' = analytics_db
        ELSE \E u \in Users :
               /\ get_user_analytics(analytics_db', u).search_count
                     = get_user_analytics(analytics_db, u).search_count + 1
               /\ Recent(analytics_db', u) # <<>>
               /\ Recent(analytics_db', u)[Len(Recent(analytics_db', u))].timestamp = now
               /\ analytics_db'.system_stats.total_searches
                     = analytics_db.system_stats.total_searches + 1

C12_AllOrNothing == [][C12_Step]_vars

(***************************************************************************)
(* Properties of the event bus under SpecBus.                              *)
(***************************************************************************)
\* C9: a publish calls every subscriber of the event's type, in registration order,
\* whether or not an earlier one raised, and returns normally to the publisher.
C9_PublishStep ==
    requests' # requests =>
        /\ delivered'.completed
        /\ Len(delivered'.calls) = Len(subscribers[delivered'.type])
        /\ \A i \in 1..Len(delivered'.calls) :
              delivered'.calls[i].handler = subscribers[delivered'.type][i]

C9_HandlerFailureIsolated == [][C9_PublishStep]_vars

\* The first subscriber raised; the second one, on_user_created, was still called
\* and counted the event; the publish returned normally.
C9_Witness ==
    /\ Len(delivered.calls) = 2
    /\ delivered.calls[1].raised
    /\ delivered.calls[2] = [handler |-> "on_user_created", raised |-> FALSE]
    /\ delivered.completed
    /\ analytics_db.system_stats.total_users_created = 1

(***************************************************************************)
(* recipe_search: calculate_match, passes_filters, search_recipes.         *)
(* A recipe and a filter spec are records that carry some of their keys;   *)
(* a missing filter spec (None) and an empty one ({}) are both the empty   *)
(* record, which "if not filters" treats alike.  Percentages are counted   *)
(* in tenths of a percent: 333 stands for 33.3.                            *)
(***************************************************************************)
\* str.lower on the strings of the model.
Lower(str) ==
    CASE str = "Egg" -> "egg"
      [] str = "Bread" -> "bread"
      [] str = "Beginner" -> "beginner"
      [] str = "ITALIAN" -> "italian"
      [] str = "Italian" -> "italian"
      [] str = "Vegan" -> "vegan"
      [] str = "Gluten-Free" -> "gluten-free"
      [] OTHER -> str

LowerAll(seq) == [i \in 1..Len(seq) |-> Lower(seq[i])]

\* dict.get(key, default)
Get(d, k, default) == IF k \in DOMAIN d THEN d[k] ELSE default

Elements(seq) == {seq[i] : i \in 1..Len(seq)}

\* A slip in the rounding: the digits after the first decimal are cut off.
TruncateTenths(count, total) == (1000 * count) \div total

\* round(count / total * 100, 1), in tenths of a percent: the nearest tenth, a tie
\* going to the even one.
RoundTenths(count, total) ==
    LET q == (1000 * count) \div total
        r == (1000 * count) % total
    IN  IF 2 * r > total THEN q + 1
        ELSE IF 2 * r < total THEN q
        ELSE IF q % 2 = 0 THEN q ELSE q + 1

Percentage(count, total) == IF total > 0 THEN RoundTenths(count, total) ELSE 0

RECURSIVE Classify(_, _, _, _)
Classify(lower_rec_ings, user_ingredients, matched, missing) ==
    IF lower_rec_ings = <<>> THEN [matched |-> matched, missing |-> missing]
    ELSE IF Head(lower_rec_ings) \in user_ingredients
         THEN Classify(Tail(lower_rec_ings), user_ingredients,
                       Append(matched, Head(lower_rec_ings)), missing)
         ELSE Classify(Tail(lower_rec_ings), user_ingredients,
                       matched, Append(missing, Head(lower_rec_ings)))

calculate_match(recipe_ingredients, user_ingredients) ==
    LET lower_rec_ings == LowerAll(recipe_ingredients)
        c == Classify(lower_rec_ings, user_ingredients, <<>>, <<>>)
    IN  [percentage |-> Percentage(Len(c.matched), Len(lower_rec_ings)),
         matched |-> c.matched,
         missing |-> c.missing]

\* The value of a filter key that Python takes as false.
Falsy(k) ==
    CASE k = "max_time" -> 0
      [] k = "dietary_tags" -> <<>>
      [] OTHER -> ""

\* 'key' in filters and filters['key']
Active(filters, k) == k \in DOMAIN filters /\ filters[k] # Falsy(k)

passes_filters(recipe, filters) ==
    IF DOMAIN filters = {} THEN TRUE
    ELSE IF /\ Active(filters, "max_time")
            /\ Get(recipe, "total_time", 999) > filters.max_time
    THEN FALSE
    ELSE IF /\ Active(filters, "skill_level")
            /\ Lower(Get(recipe, "skill_level", "")) # Lower(filters.skill_level)
    THEN FALSE
    ELSE IF /\ Active(filters, "dietary_tags")
            /\ \E required_tag \in Elements(LowerAll(filters.dietary_tags)) :
                  required_tag \notin Elements(LowerAll(Get(recipe, "dietary_tags", <<>>)))
    THEN FALSE
    ELSE IF /\ Active(filters, "cuisine")
            /\ Lower(Get(recipe, "cuisine", "")) # Lower(filters.cuisine)
    THEN FALSE
    ELSE TRUE

ResultEntry(recipe, match_data) ==
    [id |-> recipe.id,
     name |-> recipe.name,
     match_percentage |-> match_data.percentage,
     matched_ingredients |-> match_data.matched,
     missing_ingredients |-> match_data.missing,
     prep_time |-> Get(recipe, "prep_time", 0),
     cook_time |-> Get(recipe, "cook_time", 0),
     total_time |-> Get(recipe, "total_time", 0),
     servings |-> Get(recipe, "servings", 0),
     skill_level |-> Get(recipe, "skill_level", "unknown"),
     cuisine |-> Get(recipe, "cuisine", "unknown"),
     dietary_tags |-> Get(recipe, "dietary_tags", <<>>),
     equipment |-> Get(recipe, "equipment", <<>>)]

\* The loop of search_recipes over the catalog.
RECURSIVE Collect(_, _, _, _)
Collect(user_ingredients, recipes, filters, results) ==
    IF recipes = <<>> THEN results
    ELSE LET recipe == Head(recipes)
             match_data == calculate_match(recipe.ingredients, user_ingredients)
         IN  IF ~passes_filters(recipe, filters)
             THEN Collect(user_ingredients, Tail(recipes), filters, results)
             ELSE IF match_data.percentage > 0
             THEN Collect(user_ingredients, Tail(recipes), filters,
                          Append(results, ResultEntry(recipe, match_data)))
             ELSE Collect(user_ingredients, Tail(recipes), filters, results)

\* list.sort(key=match_percentage, reverse=True): descending and stable, entries
\* with equal keys keep their order.
RECURSIVE InsertDescending(_, _)
InsertDescending(sorted, x) ==
    IF sorted = <<>> THEN <<x>>
    ELSE IF Head(sorted).match_percentage >= x.match_percentage
         THEN <<Head(sorted)>> \o InsertDescending(Tail(sorted), x)
         ELSE <<x>> \o sorted

RECURSIVE SortFrom(_, _)
SortFrom(sorted, rest) ==
    IF rest = <<>> THEN sorted
    ELSE SortFrom(InsertDescending(sorted, Head(rest)), Tail(rest))

\* A slip in the sort: an ascending sort that is then reversed, which turns the
\* order of equal keys around.
RECURSIVE InsertBeforeEqual(_, _)
InsertBeforeEqual(sorted, x) ==
    IF sorted = <<>> THEN <<x>>
    ELSE IF Head(sorted).match_percentage > x.match_percentage
         THEN <<Head(sorted)>> \o InsertBeforeEqual(Tail(sorted), x)
         ELSE <<x>> \o sorted

RECURSIVE SortFromReversed(_, _)
SortFromReversed(sorted, rest) ==
    IF rest = <<>> THEN sorted
    ELSE SortFromReversed(InsertBeforeEqual(sorted, Head(rest)), Tail(rest))

SortReversed(results) == SortFromReversed(<<>>, results)

SortDescending(results) == SortFrom(<<>>, results)

\* A slip in the loop: the filter test is left out.
search_recipes_unfiltered(user_ingredients, recipes, filters) ==
    SortDescending(Collect(user_ingredients, recipes, <<>>, <<>>))

search_recipes(user_ingredients, recipes, filters) ==
    SortDescending(Collect(user_ingredients, recipes, filters, <<>>))

(***************************************************************************)
(* The arguments the search functions are called with.                     *)
(***************************************************************************)
IngredientNames == {"egg", "Egg", "bread", "milk"}

UserTokens == {"egg", "bread", "Egg"}

RECURSIVE SeqsUpTo(_, _)
SeqsUpTo(S, n) ==
    IF n = 0 THEN {<<>>}
    ELSE LET shorter == SeqsUpTo(S, n - 1)
         IN  shorter \cup {Append(q, x) : q \in shorter, x \in S}

\* Records over every subset of the keys, a key taking any of its values.
RECURSIVE Records(_, _)
Records(keys, values) ==
    IF keys = {} THEN {<<>>}
    ELSE LET k == CHOOSE x \in keys : TRUE
             rest == Records(keys \ {k}, values)
         IN  rest \cup {(k :> v) @@ r : r \in rest, v \in values[k]}

FilterValues ==
    [max_time |-> {0, 5, 10, 998, 999, 1000},
     skill_level |-> {"", "beginner"},
     dietary_tags |-> {<<>>, <<"vegan">>, <<"Vegan", "gluten-free">>},
     cuisine |-> {"", "ITALIAN"}]

FilterSpecs == Records({"max_time", "skill_level", "dietary_tags", "cuisine"}, FilterValues)

RecipeValues ==
    [total_time |-> {5, 10, 1000},
     skill_level |-> {"Beginner", "advanced"},
     dietary_tags |-> {<<>>, <<"Vegan">>, <<"vegan", "Gluten-Free">>},
     cuisine |-> {"Italian", "american"}]

\* Recipes passes_filters is called with: any of the optional keys may be missing.
FilteredRecipes ==
    {[id |-> 1, name |-> "toast", ingredients |-> <<"egg", "bread">>] @@ r :
        r \in Records({"total_time", "skill_level", "dietary_tags", "cuisine"},
                      RecipeValues)}

\* The catalog search_recipes is called with is drawn from these recipes.
RecipePool ==
    {[id |-> 1, name |-> "toast", ingredients |-> <<"Egg", "bread">>, total_time |-> 10,
      skill_level |-> "Beginner", cuisine |-> "Italian", dietary_tags |-> <<"Vegan">>],
     [id |-> 2, name |-> "boiled egg", ingredients |-> <<"egg">>],
     [id |-> 3, name |-> "custard", ingredients |-> <<"milk", "egg", "egg">>,
      total_time |-> 5, skill_level |-> "advanced", cuisine |-> "american",
      dietary_tags |-> <<"vegan", "Gluten-Free">>],
     [id |-> 4, name |-> "water", ingredients |-> <<>>, total_time |-> 5],
     [id |-> 5, name |-> "bread soup", ingredients |-> <<"bread", "milk">>,
      skill_level |-> "beginner", cuisine |-> "italian", dietary_tags |-> <<"vegan">>]}

\* Catalogs: recipe ids are unique.
Catalogs ==
    {c \in SeqsUpTo(RecipePool, MaxCatalog) :
        \A i, j \in 1..Len(c) : i # j => c[i].id # c[j].id}

SearchFilters ==
    {f \in FilterSpecs :
        /\ Get(f, "max_time", 5) \in {0, 5, 999}
        /\ Get(f, "skill_level", "beginner") = "beginner"
        /\ Get(f, "dietary_tags", <<"vegan">>) = <<"vegan">>
        /\ Get(f, "cuisine", "ITALIAN") = "ITALIAN"}

ParkedAnalytics ==
    /\ analytics_db = EmptyAnalytics
    /\ subscribers = setup_event_consumers
    /\ now = 1
    /\ delivered = [type |-> "none", calls |-> <<>>, completed |-> TRUE]
    /\ history = NoHistory
    /\ th = [t \in Threads |-> Idle]
    /\ obj = [u \in Users |-> 0]
    /\ requests = 0

analyticsVars == <<analytics_db, subscribers, now, delivered, history, th, obj, requests>>

NotCalled == [op |-> "none"]

(***************************************************************************)
(* SpecMatch: calculate_match on any recipe ingredient list and token set. *)
(***************************************************************************)
MatchInit ==
    /\ ParkedAnalytics
    /\ \E recipe_ingredients \in SeqsUpTo(IngredientNames, MaxIngredients),
          user_ingredients \in SUBSET UserTokens :
         input = [recipe_ingredients |-> recipe_ingredients,
                  user_ingredients |-> user_ingredients]
    /\ output = NotCalled

CallCalculateMatch ==
    /\ output = NotCalled
    /\ output' = [op |-> "calculate_match",
                  value |-> calculate_match(input.recipe_ingredients,
                                            input.user_ingredients)]
    /\ UNCHANGED <<input, analyticsVars>>

SpecMatch == MatchInit /\ [][CallCalculateMatch]_vars

(***************************************************************************)
(* SpecFilter: passes_filters on any recipe and filter spec.               *)
(***************************************************************************)
FilterInit ==
    /\ ParkedAnalytics
    /\ \E recipe \in FilteredRecipes, filters \in FilterSpecs :
         input = [recipe |-> recipe, filters |-> filters]
    /\ output = NotCalled

CallPassesFilters ==
    /\ output = NotCalled
    /\ output' = [op |-> "passes_filters",
                  value |-> passes_filters(input.recipe, input.filters)]
    /\ UNCHANGED <<input, analyticsVars>>

SpecFilter == FilterInit /\ [][CallPassesFilters]_vars

(***************************************************************************)
(* SpecSearch: search_recipes on any catalog, token set and filter spec.   *)
(***************************************************************************)
SearchInit ==
    /\ ParkedAnalytics
    /\ \E recipes \in Catalogs, user_ingredients \in SUBSET UserTokens,
          filters \in SearchFilters :
         input = [user_ingredients |-> user_ingredients, recipes |-> recipes,
                  filters |-> filters]
    /\ output = NotCalled

CallSearchRecipes ==
    /\ output = NotCalled
    /\ output' = [op |-> "search_recipes",
                  value |-> search_recipes(input.user_ingredients, input.recipes,
                                           input.filters)]
    /\ UNCHANGED <<input, analyticsVars>>

SpecSearch == SearchInit /\ [][CallSearchRecipes]_vars

(***************************************************************************)
(* Properties of the recipe search.                                        *)
(***************************************************************************)
Abs(n) == IF n < 0 THEN -n ELSE n

\* C7: calculate_match puts every recipe ingredient, lowercased, in matched (it is a
\* user token) or in missing (it is not), in declared order and with duplicates, so
\* the two lengths add up to the number of ingredients; percentage is
\* 100 * len(matched) / total to the nearest tenth, and 0 for no ingredients.
C7_MatchClassifies ==
    output.op = "calculate_match" =>
        LET ings == LowerAll(input.recipe_ingredients)
            total == Len(ings)
            IsToken(x) == x \in input.user_ingredients
            NoToken(x) == x \notin input.user_ingredients
            m == output.value
        IN  /\ Len(m.matched) + Len(m.missing) = total
            /\ m.matched = SelectSeq(ings, IsToken)
            /\ m.missing = SelectSeq(ings, NoToken)
            /\ total >= 1 =>
                  2 * Abs(m.percentage * total - 1000 * Len(m.matched)) <= total
            /\ total = 0 => m.percentage = 0

\* Two of three ingredients match, one of them written in upper case and one a
\* duplicate: 66.7 percent.
C7_Witness ==
    /\ output.op = "calculate_match"
    /\ input.recipe_ingredients = <<"Egg", "milk", "egg">>
    /\ output.value = [percentage |-> 667, matched |-> <<"egg", "egg">>,
                       missing |-> <<"milk">>]

\* The axes of a filter spec a recipe fails.
FailedAxes(recipe, filters) ==
    {k \in {"max_time", "skill_level", "dietary_tags", "cuisine"} :
        /\ Active(filters, k)
        /\ CASE k = "max_time" -> Get(recipe, "total_time", 999) > filters.max_time
             [] k = "skill_level" ->
                  Lower(Get(recipe, "skill_level", "")) # Lower(filters.skill_level)
             [] k = "dietary_tags" ->
                  ~(Elements(LowerAll(filters.dietary_tags))
                       \subseteq Elements(LowerAll(Get(recipe, "dietary_tags", <<>>))))
             [] k = "cuisine" -> Lower(Get(recipe, "cuisine", "")) # Lower(filters.cuisine)}

MatchedCount(recipe, user_ingredients) ==
    Cardinality({i \in 1..Len(recipe.ingredients) :
                    Lower(recipe.ingredients[i]) \in user_ingredients})

EntriesOf(recipe, results) == {j \in 1..Len(results) : results[j].id = recipe.id}

\* C4: the results of search_recipes hold exactly one entry for each catalog recipe
\* that fails no active filter axis and matches at least one ingredient, and no
\* other entry; every entry has a match percentage above 0.
C4_ResultsAreTheEligible ==
    output.op = "search_recipes" =>
        /\ \A i \in 1..Len(input.recipes) :
              Cardinality(EntriesOf(input.recipes[i], output.value))
                 = IF /\ FailedAxes(input.recipes[i], input.filters) = {}
                      /\ MatchedCount(input.recipes[i], input.user_ingredients) > 0
                   THEN 1 ELSE 0
        /\ \A j \in 1..Len(output.value) :
              /\ output.value[j].match_percentage > 0
              /\ \E i \in 1..Len(input.recipes) : input.recipes[i].id = output.value[j].id

\* A recipe whose ingredients all match is left out because it fails one axis only,
\* a recipe that matches nothing is left out, and another recipe is returned.
C4_Witness ==
    /\ output.op = "search_recipes"
    /\ Len(output.value) = 1
    /\ \E i, k \in 1..Len(input.recipes) :
          /\ Cardinality(FailedAxes(input.recipes[i], input.filters)) = 1
          /\ input.recipes[i].ingredients # <<>>
          /\ MatchedCount(input.recipes[i], input.user_ingredients)
                = Len(input.recipes[i].ingredients)
          /\ EntriesOf(input.recipes[i], output.value) = {}
          /\ FailedAxes(input.recipes[k], input.filters) = {}
          /\ input.recipes[k].ingredients # <<>>
          /\ MatchedCount(input.recipes[k], input.user_ingredients) = 0

PositionOf(id, recipes) == CHOOSE i \in 1..Len(recipes) : recipes[i].id = id

\* C5: the results are in descending order of match_percentage, and two results
\* with the same percentage are in the order of their recipes in the catalog.
C5_StableDescending ==
    output.op = "search_recipes" =>
        \A i, j \in 1..Len(output.value) :
            i < j =>
                /\ output.value[i].match_percentage >= output.value[j].match_percentage
                /\ output.value[i].match_percentage = output.value[j].match_percentage
                      => PositionOf(output.value[i].id, input.recipes)
                            < PositionOf(output.value[j].id, input.recipes)

\* Three results: the first two tie, and the sort has moved a later recipe of the
\* catalog before an earlier one.
C5_Witness ==
    /\ output.op = "search_recipes"
    /\ Len(output.value) = 3
    /\ output.value[1].match_percentage = output.value[2].match_percentage
    /\ output.value[2].match_percentage > output.value[3].match_percentage
    /\ PositionOf(output.value[3].id, input.recipes) = 2

\* C6: a recipe without total_time fails every filter spec whose max_time is a
\* positive number of minutes.
C6_MissingTimeFails ==
    ( /\ output.op = "passes_filters"
      /\ "total_time" \notin DOMAIN input.recipe
      /\ "max_time" \in DOMAIN input.filters
      /\ input.filters.max_time > 0 )
        => output.value = FALSE

====
